---- MODULE Spec2Model ----
(***************************************************************************)
(* Detection query language: the detection operations of                   *)
(* query_language/operations/detections/base.py                            *)
(* (extract_detections_property, filter_detections, offset_detections,     *)
(* shift_detections), executed statement by statement over a heap of       *)
(* Python objects, so that aliasing (copy / deepcopy) is observable.       *)
(*                                                                         *)
(* Numbers.  Box coordinates are floats that only ever take values with    *)
(* one binary fractional digit here (integer pixels, plus or minus half an *)
(* integer offset).  A coordinate is stored as the integer number of HALF  *)
(* pixels: the stored value n stands for n/2.  Values flowing through the  *)
(* statement evaluator are exact rationals [n, d].                         *)
(***************************************************************************)
EXTENDS Integers, Sequences, FiniteSets, TLC

\* Longest detection collection handed to an operation.
MaxLen == 2

\* The reserved operand name under which the detection under test is bound.
DEFAULT_OPERAND_NAME == "_"

\* A key no statement reads: the slot a memoising callable writes to.
ScratchName == "memo"

(***************************************************************************)
(* Values                                                                  *)
(***************************************************************************)
Num(n, d) == [tag |-> "num", n |-> n, d |-> d]
Str(s) == [tag |-> "str", v |-> s]
SetOf(S) == [tag |-> "set", v |-> S]
Image(w, h) == [tag |-> "image", width |-> w, height |-> h]
Bool(b) == [tag |-> "bool", v |-> b]
Err(e) == [tag |-> "err", error |-> e]
Free == [tag |-> "free"]

\* A box given in pixels, stored in half pixels.
Box(x1, y1, x2, y2) == <<2 * x1, 2 * y1, 2 * x2, 2 * y2>>

\* One detection as produced by the upstream model (confidence in 1/100).
RowPerson == [xyxy |-> Box(100, 100, 200, 200), confidence |-> 84,
              class_id |-> 0, class_name |-> "person"]
RowCar == [xyxy |-> Box(10, 10, 15, 20), confidence |-> 50,
           class_id |-> 2, class_name |-> "car"]
RowSmallPerson == [xyxy |-> Box(0, 0, 5, 4), confidence |-> 83,
                   class_id |-> 0, class_name |-> "person"]
RowPool == {RowPerson, RowCar, RowSmallPerson}
\* A detection of a very large image, beyond 2^24 pixels, where single
\* precision numbers are two pixels apart.
RowFar == [xyxy |-> Box(16777218, 0, 16777224, 4), confidence |-> 60,
           class_id |-> 2, class_name |-> "car"]

\* sv.Detections is columnar: one array per attribute, index aligned, and a
\* dictionary `data` of auxiliary columns (class_name is one of them).
MkDetections(rows, withNames) ==
    [tag |-> "Detections",
     dtype |-> "float64",
     xyxy |-> [i \in 1..Len(rows) |-> rows[i].xyxy],
     confidence |-> [i \in 1..Len(rows) |-> rows[i].confidence],
     class_id |-> [i \in 1..Len(rows) |-> rows[i].class_id],
     data |-> IF withNames
              THEN [class_name |-> [i \in 1..Len(rows) |-> rows[i].class_name]]
              ELSE <<>>]

\* The coordinate array holds binary floating point numbers of its dtype:
\* a sum is rounded to the nearest number with SignificandBits(dtype)
\* significant bits (ties to even).  n counts half pixels.
Dtypes == {"float32", "float64"}
SignificandBits(dtype) == IF dtype = "float32" THEN 24 ELSE 53
RECURSIVE Pow2(_)
Pow2(k) == IF k = 0 THEN 1 ELSE 2 * Pow2(k - 1)
Abs(n) == IF n < 0 THEN -n ELSE n
\* Number of binary digits of m >= 0.
RECURSIVE BitLength(_)
BitLength(m) == IF m = 0 THEN 0 ELSE 1 + BitLength(m \div 2)
\* Spacing of the representable numbers around n.
Quantum(n, dtype) ==
    LET e == BitLength(Abs(n)) - SignificandBits(dtype)
    IN  IF e <= 0 THEN 1 ELSE Pow2(e)
RoundFloat(n, dtype) ==
    LET q == Quantum(n, dtype)
        lo == (n \div q) * q
        r == n - lo
    IN  IF 2 * r < q THEN lo
        ELSE IF 2 * r > q THEN lo + q
        ELSE IF (lo \div q) % 2 = 0 THEN lo ELSE lo + q

\* xyxy.astype(dtype)
AsType(D, dtype) ==
    [D EXCEPT !.dtype = dtype,
              !.xyxy = [i \in 1..Len(D.xyxy) |->
                           [j \in 1..4 |-> RoundFloat(D.xyxy[i][j], dtype)]]]

RowSeqs == UNION {[1..n -> RowPool] : n \in 0..MaxLen}
\* Collections whose coordinate array is single precision.
Float32Collections ==
    {AsType(MkDetections(rows, TRUE), "float32") :
        rows \in UNION {[1..n -> {RowPerson, RowFar}] : n \in 1..MaxLen}}
Collections ==
    {MkDetections(rows, w) : rows \in RowSeqs, w \in BOOLEAN}
        \cup Float32Collections
NonCollections == {[tag |-> "int", v |-> 7], [tag |-> "str", v |-> "x"],
                   [tag |-> "NoneType"]}

IsDetections(v) == v.tag = "Detections"
LenDet(D) == Len(D.xyxy)

\* sv.Detections.__iter__: the i-th element, one value per column.
DetRow(D, i) ==
    [tag |-> "row", xyxy |-> D.xyxy[i], confidence |-> D.confidence[i],
     class_id |-> D.class_id[i],
     data |-> [k \in DOMAIN D.data |-> D.data[k][i]]]

(***************************************************************************)
(* Dictionaries                                                            *)
(***************************************************************************)
Dict(items) == [tag |-> "dict", items |-> items]
Put(items, k, v) ==
    [n \in (DOMAIN items) \cup {k} |-> IF n = k THEN v ELSE items[n]]
Del(items, k) == [n \in (DOMAIN items) \ {k} |-> items[n]]

ParameterNames == {"classes", "image", ScratchName, DEFAULT_OPERAND_NAME}
AllParameters ==
    [k \in ParameterNames |->
        CASE k = "classes" -> SetOf({"person"})
          [] k = "image" -> Image(400, 250)
          [] k = ScratchName -> Num(1, 1)
          [] OTHER -> DetRow(MkDetections(<<RowCar>>, TRUE), 1)]
GlobalDicts == {Dict([k \in S |-> AllParameters[k]]) : S \in SUBSET ParameterNames}

(***************************************************************************)
(* Property registry                                                       *)
(***************************************************************************)
DetectionsProperties ==
    {"confidence", "class_name", "x_min", "y_min", "x_max", "y_max",
     "class_id", "size"}

\* sv.Detections.box_area of one box: (x_max - x_min) * (y_max - y_min).
BoxArea(b) == Num((b[3] - b[1]) * (b[4] - b[2]), 4)

\* The value of one property for one element (one cell of the column the
\* registered extractor returns); a missing data column is a KeyError.
PropertyOfRow(property_name, row) ==
    CASE property_name = "confidence" -> Num(row.confidence, 100)
      [] property_name = "class_name" ->
            IF "class_name" \in DOMAIN row.data
            THEN Str(row.data["class_name"])
            ELSE Err("KeyError")
      [] property_name = "x_min" -> Num(row.xyxy[1], 2)
      [] property_name = "y_min" -> Num(row.xyxy[2], 2)
      [] property_name = "x_max" -> Num(row.xyxy[3], 2)
      [] property_name = "y_max" -> Num(row.xyxy[4], 2)
      [] property_name = "class_id" -> Num(row.class_id, 1)
      [] property_name = "size" -> BoxArea(row.xyxy)
      [] OTHER -> Err("KeyError")

\* PROPERTIES_EXTRACTORS[property_name](detections): the whole column as a
\* list, or the error the lookup raises.
PROPERTIES_EXTRACTORS(property_name, D) ==
    IF property_name \notin DetectionsProperties
        \/ (property_name = "class_name" /\ "class_name" \notin DOMAIN D.data)
    THEN Err("KeyError")
    ELSE [tag |-> "list",
          v |-> [i \in 1..LenDet(D) |-> PropertyOfRow(property_name, DetRow(D, i))]]

(***************************************************************************)
(* Statements and their evaluation (sections 4.2 - 4.5 of the design)      *)
(***************************************************************************)
DynamicOperand(name, operations) ==
    [operand_name |-> name, operations |-> operations]
ExtractDetectionProperty(p) ==
    [type |-> "ExtractDetectionProperty", property_name |-> p]
ExtractImageProperty(p) ==
    [type |-> "ExtractImageProperty", property_name |-> p]
Multiply(n, d) == [type |-> "Multiply", other |-> Num(n, d)]
BinaryStatement(l, c, r) ==
    [type |-> "BinaryStatement", left_operand |-> l, comparator |-> c,
     right_operand |-> r]
StatementGroup(op, stmts) ==
    [type |-> "StatementGroup", operator |-> op, statements |-> stmts]

\* The two leaves of FILTERING_WORKFLOW and the groups built from them.
ClassInClasses ==
    BinaryStatement(
        DynamicOperand(DEFAULT_OPERAND_NAME, <<ExtractDetectionProperty("class_name")>>),
        "in (Sequence)",
        DynamicOperand("classes", <<>>))
SizeAtLeast ==
    BinaryStatement(
        DynamicOperand(DEFAULT_OPERAND_NAME, <<ExtractDetectionProperty("size")>>),
        "(Number) >=",
        DynamicOperand("image", <<ExtractImageProperty("size"), Multiply(2, 100)>>))
FILTERING_WORKFLOW == StatementGroup("and", <<ClassInClasses, SizeAtLeast>>)
EitherStatement == StatementGroup("or", <<ClassInClasses, SizeAtLeast>>)
NestedStatement ==
    StatementGroup("and", <<StatementGroup("or", <<SizeAtLeast, ClassInClasses>>),
                            ClassInClasses>>)
Statements ==
    {ClassInClasses, SizeAtLeast, FILTERING_WORKFLOW, EitherStatement,
     NestedStatement}

IsErr(v) == v.tag = "err"

\* One stage of the operation pipeline.
ApplyOperation(operation, value) ==
    IF IsErr(value) THEN value
    ELSE CASE operation.type = "ExtractDetectionProperty" ->
                IF value.tag = "row"
                THEN LET r == PropertyOfRow(operation.property_name, value)
                     IN  IF IsErr(r) THEN Err("InvalidInputTypeError") ELSE r
                ELSE Err("InvalidInputTypeError")
           [] operation.type = "ExtractImageProperty" ->
                IF value.tag = "image" /\ operation.property_name = "size"
                THEN Num(value.width * value.height, 1)
                ELSE Err("InvalidInputTypeError")
           [] operation.type = "Multiply" ->
                IF value.tag = "num"
                THEN Num(value.n * operation.other.n, value.d * operation.other.d)
                ELSE Err("InvalidInputTypeError")
           [] OTHER -> Err("EvaluationEngineError")

RECURSIVE ApplyOperations(_, _, _)
ApplyOperations(operations, value, k) ==
    IF k > Len(operations) THEN value
    ELSE ApplyOperations(operations, ApplyOperation(operations[k], value), k + 1)

\* Operand resolver: the bound detection or a named global, then the pipeline.
ResolveOperand(operand, context) ==
    IF operand.operand_name \notin DOMAIN context
    THEN Err("EvaluationEngineError")
    ELSE ApplyOperations(operand.operations, context[operand.operand_name], 1)

\* Comparator set.
Compare(comparator, l, r) ==
    CASE IsErr(l) -> l
      [] IsErr(r) -> r
      [] comparator = "in (Sequence)" ->
            IF r.tag = "set" /\ l.tag = "str" THEN Bool(l.v \in r.v)
            ELSE Err("InvalidInputTypeError")
      [] comparator = "(Number) >=" ->
            IF l.tag = "num" /\ r.tag = "num" THEN Bool(l.n * r.d >= r.n * l.d)
            ELSE Err("InvalidInputTypeError")
      [] OTHER -> Err("EvaluationEngineError")

\* Statement evaluator.  shortCircuit selects between the two permitted
\* strategies for groups: stop at the deciding child, or evaluate them all.
RECURSIVE EvalStatement(_, _, _), EvalGroup(_, _, _, _, _)
EvalStatement(statement, context, shortCircuit) ==
    IF statement.type = "BinaryStatement"
    THEN Compare(statement.comparator,
                 ResolveOperand(statement.left_operand, context),
                 ResolveOperand(statement.right_operand, context))
    ELSE EvalGroup(statement, context, shortCircuit, 1, statement.operator = "and")
EvalGroup(group, context, shortCircuit, k, acc) ==
    IF k > Len(group.statements) THEN Bool(acc)
    ELSE IF shortCircuit /\ k > 1 /\ acc = (group.operator = "or") THEN Bool(acc)
    ELSE LET r == EvalStatement(group.statements[k], context, shortCircuit)
         IN  IF IsErr(r) THEN r
             ELSE EvalGroup(group, context, shortCircuit, k + 1,
                            IF group.operator = "and" THEN acc /\ r.v
                            ELSE acc \/ r.v)

(***************************************************************************)
(* Heap of Python objects                                                  *)
(***************************************************************************)
\* Address 1 holds the caller's argument (detections / value), address 2
\* the caller's global parameter mapping; the rest is free store.
ValueAddr == 1
GlobalsAddr == 2
Addrs == 1..7
NoRef == 0

Alloc(h) == CHOOSE a \in Addrs : h[a] = Free /\ \A b \in Addrs : b < a => h[b] # Free

\* Slip: the "copy" is the original object under another name.
copy_alias(h, ref) == [heap |-> h, ref |-> ref]
deepcopy_alias(h, ref) == [heap |-> h, ref |-> ref]

\* copy.copy of a dict / copy.deepcopy of a collection: a new object with
\* equal contents.  Returns the new heap and the reference to the copy.
copy(h, ref) ==
    LET a == Alloc(h) IN [heap |-> [h EXCEPT ![a] = h[ref]], ref |-> a]
deepcopy(h, ref) ==
    LET a == Alloc(h) IN [heap |-> [h EXCEPT ![a] = h[ref]], ref |-> a]

\* Slip: the selection stops at the first false entry of the mask.
RECURSIVE MaskIndicesUntilFalse(_, _)
MaskIndicesUntilFalse(mask, k) ==
    IF k > Len(mask) \/ ~mask[k] THEN <<>>
    ELSE <<k>> \o MaskIndicesUntilFalse(mask, k + 1)

\* Indices of the true entries of a boolean mask, ascending.
RECURSIVE MaskIndices(_, _)
MaskIndices(mask, k) ==
    IF k > Len(mask) THEN <<>>
    ELSE IF mask[k] THEN <<k>> \o MaskIndices(mask, k + 1)
    ELSE MaskIndices(mask, k + 1)

\* sv.Detections.__getitem__ with a list of booleans: every column is
\* subset by the mask; numpy rejects a mask of the wrong length.
GetItem(D, mask) ==
    IF Len(mask) # LenDet(D) /\ Len(mask) # 0 THEN Err("IndexError")
    ELSE LET ix == MaskIndices(mask, 1) IN
         [tag |-> "Detections",
          dtype |-> D.dtype,
          xyxy |-> [k \in 1..Len(ix) |-> D.xyxy[ix[k]]],
          confidence |-> [k \in 1..Len(ix) |-> D.confidence[ix[k]]],
          class_id |-> [k \in 1..Len(ix) |-> D.class_id[ix[k]]],
          data |-> [c \in DOMAIN D.data |-> [k \in 1..Len(ix) |-> D.data[c][ix[k]]]]]

\* xyxy += [a, b, c, d], broadcast over the rows.
AddToBoxes(D, delta) ==
    [D EXCEPT !.xyxy = [i \in 1..Len(D.xyxy) |->
                           [j \in 1..4 |->
                               RoundFloat(D.xyxy[i][j] + delta[j], D.dtype)]]]

\* What a callable passed as filtering_fun may do to the mapping it is
\* given, besides computing its boolean.
Effects == {"none", "set_memo", "del_memo", "rebind_operand", "del_operand"}
ApplyEffect(items, effect) ==
    CASE effect = "set_memo" -> Put(items, ScratchName, Num(2, 1))
      [] effect = "del_memo" -> Del(items, ScratchName)
      [] effect = "rebind_operand" ->
            Put(items, DEFAULT_OPERAND_NAME, AllParameters[DEFAULT_OPERAND_NAME])
      [] effect = "del_operand" -> Del(items, DEFAULT_OPERAND_NAME)
      [] OTHER -> items

Offsets == {-250, -10, 0, 5, 10, 20}
Shifts == {-7, 0, 3}

(***************************************************************************)
(* State                                                                   *)
(***************************************************************************)
VARIABLES
    pc,                 \* position of the running operation
    fn,                 \* the operation called and its scalar arguments
    heap,               \* the objects
    local_parameters,   \* filter_detections: reference to the context
    result,             \* filter_detections: the mask built so far
    idx,                \* filter_detections: elements taken by the iterator
    should_stay,        \* filter_detections: the last boolean computed
    detections_copy,    \* offset / shift: reference to the copy
    outcome,            \* how the call ended
    heap0,              \* the caller's objects as they were at the call
    seen                \* the contexts filtering_fun was called with

vars == <<pc, fn, heap, local_parameters, result, idx, should_stay,
          detections_copy, outcome, heap0, seen>>

Init ==
    /\ pc = "idle"
    /\ fn = [op |-> "none"]
    /\ \E v \in Collections \cup NonCollections, g \in GlobalDicts :
          heap = [a \in Addrs |-> IF a = ValueAddr THEN v
                                  ELSE IF a = GlobalsAddr THEN g ELSE Free]
    /\ heap0 = heap
    /\ local_parameters = NoRef
    /\ result = <<>>
    /\ idx = 0
    /\ should_stay = FALSE
    /\ detections_copy = NoRef
    /\ outcome = [kind |-> "none"]
    /\ seen = <<>>

Raise(e) ==
    /\ pc' = "done"
    /\ outcome' = [kind |-> "raised", error |-> e]

Return(ref) ==
    /\ pc' = "done"
    /\ outcome' = [kind |-> "returned", ref |-> ref]

(***************************************************************************)
(* filter_detections                                                       *)
(***************************************************************************)
CallFilter ==
    /\ pc = "idle"
    /\ \E s \in Statements, e \in Effects, sc \in BOOLEAN :
          fn' = [op |-> "filter_detections", statement |-> s, effect |-> e,
                 shortCircuit |-> sc]
    /\ pc' = "filter_check"
    /\ UNCHANGED <<heap, local_parameters, result, idx, should_stay,
                   detections_copy, outcome, heap0, seen>>

\* if not isinstance(detections, sv.Detections): raise InvalidInputTypeError
FilterCheck ==
    /\ pc = "filter_check"
    /\ IF IsDetections(heap[ValueAddr])
       THEN pc' = "filter_copy" /\ UNCHANGED outcome
       ELSE Raise("InvalidInputTypeError")
    /\ UNCHANGED <<fn, heap, local_parameters, result, idx, should_stay,
                   detections_copy, heap0, seen>>

\* local_parameters = copy(global_parameters); result = []
FilterCopy ==
    /\ pc = "filter_copy"
    /\ LET c == copy(heap, GlobalsAddr) IN
          /\ heap' = c.heap
          /\ local_parameters' = c.ref
    /\ result' = <<>>
    /\ idx' = 0
    /\ pc' = "filter_loop"
    /\ UNCHANGED <<fn, should_stay, detections_copy, outcome, heap0, seen>>

\* Slip: the element bound is the one before the element iterated.
FilterBindPrevious ==
    /\ pc = "filter_loop"
    /\ idx < LenDet(heap[ValueAddr])
    /\ idx' = idx + 1
    /\ heap' = [heap EXCEPT ![local_parameters].items =
                   Put(@, DEFAULT_OPERAND_NAME,
                       DetRow(heap[ValueAddr], IF idx = 0 THEN 1 ELSE idx))]
    /\ pc' = "filter_eval"
    /\ UNCHANGED <<fn, local_parameters, result, should_stay, detections_copy,
                   outcome, heap0, seen>>

\* Slip: the detection is bound only when the name is not bound yet
\* (local_parameters.setdefault(DEFAULT_OPERAND_NAME, detection)).
FilterBindSetDefault ==
    /\ pc = "filter_loop"
    /\ idx < LenDet(heap[ValueAddr])
    /\ idx' = idx + 1
    /\ heap' = [heap EXCEPT ![local_parameters].items =
                   IF DEFAULT_OPERAND_NAME \in DOMAIN @ THEN @
                   ELSE Put(@, DEFAULT_OPERAND_NAME,
                            DetRow(heap[ValueAddr], idx + 1))]
    /\ pc' = "filter_eval"
    /\ UNCHANGED <<fn, local_parameters, result, should_stay, detections_copy,
                   outcome, heap0, seen>>

\* for detection in detections: local_parameters[DEFAULT_OPERAND_NAME] = detection
FilterBind ==
    /\ pc = "filter_loop"
    /\ idx < LenDet(heap[ValueAddr])
    /\ idx' = idx + 1
    /\ heap' = [heap EXCEPT ![local_parameters].items =
                   Put(@, DEFAULT_OPERAND_NAME, DetRow(heap[ValueAddr], idx + 1))]
    /\ pc' = "filter_eval"
    /\ UNCHANGED <<fn, local_parameters, result, should_stay, detections_copy,
                   outcome, heap0, seen>>

\* Slip: an error of the callable is caught and counted as "drop".
FilterEvalSwallow ==
    /\ pc = "filter_eval"
    /\ seen' = Append(seen, heap[local_parameters].items)
    /\ LET r == EvalStatement(fn.statement, heap[local_parameters].items,
                              fn.shortCircuit) IN
          IF IsErr(r)
          THEN /\ should_stay' = FALSE
               /\ UNCHANGED heap
          ELSE /\ should_stay' = r.v
               /\ heap' = [heap EXCEPT ![local_parameters].items =
                              ApplyEffect(@, fn.effect)]
    /\ pc' = "filter_append"
    /\ UNCHANGED <<fn, local_parameters, result, idx, detections_copy, heap0,
                   outcome>>

\* Slip: an error of the callable ends the loop and the mask built so far
\* is applied.
FilterEvalBreak ==
    /\ pc = "filter_eval"
    /\ seen' = Append(seen, heap[local_parameters].items)
    /\ LET r == EvalStatement(fn.statement, heap[local_parameters].items,
                              fn.shortCircuit) IN
          IF IsErr(r)
          THEN /\ idx' = LenDet(heap[ValueAddr])
               /\ pc' = "filter_loop"
               /\ UNCHANGED <<heap, should_stay>>
          ELSE /\ should_stay' = r.v
               /\ heap' = [heap EXCEPT ![local_parameters].items =
                              ApplyEffect(@, fn.effect)]
               /\ pc' = "filter_append"
               /\ UNCHANGED idx
    /\ UNCHANGED <<fn, local_parameters, result, detections_copy, heap0,
                   outcome>>

\* should_stay = filtering_fun(local_parameters)
FilterEval ==
    /\ pc = "filter_eval"
    /\ seen' = Append(seen, heap[local_parameters].items)
    /\ LET r == EvalStatement(fn.statement, heap[local_parameters].items,
                              fn.shortCircuit) IN
          IF IsErr(r)
          THEN /\ Raise(r.error)
               /\ UNCHANGED <<heap, should_stay>>
          ELSE /\ should_stay' = r.v
               /\ heap' = [heap EXCEPT ![local_parameters].items =
                              ApplyEffect(@, fn.effect)]
               /\ pc' = "filter_append"
               /\ UNCHANGED outcome
    /\ UNCHANGED <<fn, local_parameters, result, idx, detections_copy, heap0>>

\* result.append(should_stay)
FilterAppend ==
    /\ pc = "filter_append"
    /\ result' = Append(result, should_stay)
    /\ pc' = "filter_loop"
    /\ UNCHANGED <<fn, heap, local_parameters, idx, should_stay,
                   detections_copy, outcome, heap0, seen>>

\* return detections[result]
FilterReturn ==
    /\ pc = "filter_loop"
    /\ idx >= LenDet(heap[ValueAddr])
    /\ LET sub == GetItem(heap[ValueAddr], result) IN
          IF IsErr(sub)
          THEN Raise(sub.error) /\ UNCHANGED heap
          ELSE LET a == Alloc(heap) IN
                  /\ heap' = [heap EXCEPT ![a] = sub]
                  /\ Return(a)
    /\ UNCHANGED <<fn, local_parameters, result, idx, should_stay,
                   detections_copy, heap0, seen>>

(***************************************************************************)
(* offset_detections                                                       *)
(***************************************************************************)
CallOffset ==
    /\ pc = "idle"
    /\ \E ox \in Offsets, oy \in Offsets :
          fn' = [op |-> "offset_detections", offset_x |-> ox, offset_y |-> oy]
    /\ pc' = "offset_check"
    /\ UNCHANGED <<heap, local_parameters, result, idx, should_stay,
                   detections_copy, outcome, heap0, seen>>

\* Slip: the copy is taken before the type of the value is checked.
OffsetCheckAfterCopy ==
    /\ pc = "offset_check"
    /\ LET c == deepcopy(heap, ValueAddr) IN
          /\ heap' = c.heap
          /\ detections_copy' = c.ref
    /\ IF IsDetections(heap[ValueAddr])
       THEN pc' = "offset_add" /\ UNCHANGED outcome
       ELSE Raise("InvalidInputTypeError")
    /\ UNCHANGED <<fn, local_parameters, result, idx, should_stay, heap0, seen>>

\* if not isinstance(value, sv.Detections): raise InvalidInputTypeError
OffsetCheck ==
    /\ pc = "offset_check"
    /\ IF IsDetections(heap[ValueAddr])
       THEN pc' = "offset_copy" /\ UNCHANGED outcome
       ELSE Raise("InvalidInputTypeError")
    /\ UNCHANGED <<fn, heap, local_parameters, result, idx, should_stay,
                   detections_copy, heap0, seen>>

\* detections_copy = deepcopy(value)
OffsetCopy ==
    /\ pc = "offset_copy"
    /\ LET c == deepcopy(heap, ValueAddr) IN
          /\ heap' = c.heap
          /\ detections_copy' = c.ref
    /\ pc' = "offset_add"
    /\ UNCHANGED <<fn, local_parameters, result, idx, should_stay, outcome,
                   heap0, seen>>

\* Slip: the offsets are applied in full on each side.
OffsetDeltaFull(offset_x, offset_y) ==
    <<-2 * offset_x, -2 * offset_y, 2 * offset_x, 2 * offset_y>>

\* [-offset_x / 2, -offset_y / 2, offset_x / 2, offset_y / 2], in half pixels
OffsetDelta(offset_x, offset_y) == <<-offset_x, -offset_y, offset_x, offset_y>>

\* detections_copy.xyxy += [...]; return detections_copy
OffsetAdd ==
    /\ pc = "offset_add"
    /\ heap' = [heap EXCEPT ![detections_copy] =
                   AddToBoxes(@, OffsetDelta(fn.offset_x, fn.offset_y))]
    /\ Return(detections_copy)
    /\ UNCHANGED <<fn, local_parameters, result, idx, should_stay,
                   detections_copy, heap0, seen>>

(***************************************************************************)
(* shift_detections                                                        *)
(***************************************************************************)
CallShift ==
    /\ pc = "idle"
    /\ \E sx \in Shifts, sy \in Shifts :
          fn' = [op |-> "shift_detections", shift_x |-> sx, shift_y |-> sy]
    /\ pc' = "shift_check"
    /\ UNCHANGED <<heap, local_parameters, result, idx, should_stay,
                   detections_copy, outcome, heap0, seen>>

\* if not isinstance(value, sv.Detections): raise InvalidInputTypeError
ShiftCheck ==
    /\ pc = "shift_check"
    /\ IF IsDetections(heap[ValueAddr])
       THEN pc' = "shift_copy" /\ UNCHANGED outcome
       ELSE Raise("InvalidInputTypeError")
    /\ UNCHANGED <<fn, heap, local_parameters, result, idx, should_stay,
                   detections_copy, heap0, seen>>

\* detections_copy = deepcopy(value)
ShiftCopy ==
    /\ pc = "shift_copy"
    /\ LET c == deepcopy(heap, ValueAddr) IN
          /\ heap' = c.heap
          /\ detections_copy' = c.ref
    /\ pc' = "shift_add"
    /\ UNCHANGED <<fn, local_parameters, result, idx, should_stay, outcome,
                   heap0, seen>>

\* Slip: the shifts of the maximum corner are swapped.
ShiftDeltaSwapped(shift_x, shift_y) ==
    <<2 * shift_x, 2 * shift_y, 2 * shift_y, 2 * shift_x>>

\* [shift_x, shift_y, shift_x, shift_y], in half pixels
ShiftDelta(shift_x, shift_y) ==
    <<2 * shift_x, 2 * shift_y, 2 * shift_x, 2 * shift_y>>

\* detections_copy.xyxy += [...]; return detections_copy
ShiftAdd ==
    /\ pc = "shift_add"
    /\ heap' = [heap EXCEPT ![detections_copy] =
                   AddToBoxes(@, ShiftDelta(fn.shift_x, fn.shift_y))]
    /\ Return(detections_copy)
    /\ UNCHANGED <<fn, local_parameters, result, idx, should_stay,
                   detections_copy, heap0, seen>>

(***************************************************************************)
(* extract_detections_property                                             *)
(***************************************************************************)
CallExtract ==
    /\ pc = "idle"
    /\ \E p \in DetectionsProperties :
          fn' = [op |-> "extract_detections_property", property_name |-> p]
    /\ pc' = "extract_check"
    /\ UNCHANGED <<heap, local_parameters, result, idx, should_stay,
                   detections_copy, outcome, heap0, seen>>

\* if not isinstance(detections, sv.Detections): raise InvalidInputTypeError
ExtractCheck ==
    /\ pc = "extract_check"
    /\ IF IsDetections(heap[ValueAddr])
       THEN pc' = "extract_return" /\ UNCHANGED outcome
       ELSE Raise("InvalidInputTypeError")
    /\ UNCHANGED <<fn, heap, local_parameters, result, idx, should_stay,
                   detections_copy, heap0, seen>>

\* return PROPERTIES_EXTRACTORS[property_name](detections)
ExtractReturn ==
    /\ pc = "extract_return"
    /\ LET r == PROPERTIES_EXTRACTORS(fn.property_name, heap[ValueAddr]) IN
          IF IsErr(r)
          THEN Raise(r.error) /\ UNCHANGED heap
          ELSE LET a == Alloc(heap) IN
                  /\ heap' = [heap EXCEPT ![a] = r]
                  /\ Return(a)
    /\ UNCHANGED <<fn, local_parameters, result, idx, should_stay,
                   detections_copy, heap0, seen>>

Next ==
    \/ CallFilter
    \/ FilterCheck
    \/ FilterCopy
    \/ FilterBind
    \/ FilterEval
    \/ FilterAppend
    \/ FilterReturn
    \/ CallOffset
    \/ OffsetCheck
    \/ OffsetCopy
    \/ OffsetAdd
    \/ CallShift
    \/ ShiftCheck
    \/ ShiftCopy
    \/ ShiftAdd
    \/ CallExtract
    \/ ExtractCheck
    \/ ExtractReturn

Spec == Init /\ [][Next]_vars

(***************************************************************************)
(* Vocabulary of the properties                                            *)
(***************************************************************************)
\* The caller's collection and global context as they were at the call.
D0 == heap0[ValueAddr]
G0 == heap0[GlobalsAddr].items

FilterCalled == fn.op = "filter_detections" /\ IsDetections(D0)
FilterReturned == pc = "done" /\ FilterCalled /\ outcome.kind = "returned"
FilterRaised == pc = "done" /\ FilterCalled /\ outcome.kind = "raised"
Returned == heap[outcome.ref]

\* The statement evaluated with detection i of D bound under the reserved
\* name in the caller's global context.
Verdict(i) ==
    EvalStatement(fn.statement, Put(G0, DEFAULT_OPERAND_NAME, DetRow(D0, i)),
                  fn.shortCircuit)

\* f embeds R into D as an order-preserving sub-collection.
Embeds(f, R, D) ==
    /\ \A k \in 1..LenDet(R) : DetRow(R, k) = DetRow(D, f[k])
    /\ \A k, l \in 1..LenDet(R) : k < l => f[k] < f[l]

\* C1: a successful filter_detections returns a sub-collection of D, no
\* longer than D, in D's relative order, and every element of it satisfies
\* the statement when bound under the reserved operand name.
C1_FilterReturnsSatisfyingSubcollection ==
    FilterReturned =>
        /\ IsDetections(Returned)
        /\ LenDet(Returned) <= LenDet(D0)
        /\ DOMAIN Returned.data = DOMAIN D0.data
        /\ \E f \in [1..LenDet(Returned) -> 1..LenDet(D0)] : Embeds(f, Returned, D0)
        /\ \A k \in 1..LenDet(Returned) :
              EvalStatement(fn.statement,
                            Put(G0, DEFAULT_OPERAND_NAME, DetRow(Returned, k)),
                            fn.shortCircuit) = Bool(TRUE)

C1_Witness ==
    /\ FilterReturned
    /\ LenDet(D0) = 2
    /\ LenDet(Returned) = 1
    /\ DetRow(Returned, 1) = DetRow(D0, 2)
    /\ DetRow(D0, 1) # DetRow(D0, 2)

\* Number of mask entries that are true among the first i.
TrueUpTo(mask, i) == Cardinality({j \in 1..i : mask[j]})

\* C2: the mask has one entry per detection, entry i is the statement's
\* value for detection i, and the returned collection consists of exactly
\* the detections whose entry is true.
C2_MaskDecidesMembership ==
    /\ FilterCalled =>
          \A i \in 1..Len(result) : Verdict(i) = Bool(result[i])
    /\ FilterReturned =>
          /\ Len(result) = LenDet(D0)
          /\ LenDet(Returned) = TrueUpTo(result, Len(result))
          /\ \A i \in 1..Len(result) :
                result[i] => DetRow(Returned, TrueUpTo(result, i)) = DetRow(D0, i)

C2_Witness ==
    /\ FilterReturned
    /\ result = <<TRUE, FALSE>>
    /\ LenDet(Returned) = 1

\* C3: filter_detections never changes the caller's global parameter
\* mapping, whether it is running, has returned or has raised.
C3_GlobalParametersUntouched ==
    fn.op = "filter_detections" => heap[GlobalsAddr] = heap0[GlobalsAddr]

C3_Witness ==
    /\ FilterReturned
    /\ Len(seen) = 2
    /\ fn.effect = "set_memo"
    /\ DOMAIN G0 = {"classes", "image"}
    /\ DOMAIN heap[local_parameters].items =
          {"classes", "image", ScratchName, DEFAULT_OPERAND_NAME}

\* C4: the context each detection is evaluated with is exactly the global
\* parameters plus the binding of that detection.
C4_FreshContextPerDetection ==
    FilterCalled =>
        \A j \in 1..Len(seen) :
            seen[j] = Put(G0, DEFAULT_OPERAND_NAME, DetRow(D0, j))

\* C5: filter, offset and shift leave the argument collection as it was.
C5_ArgumentCollectionUntouched ==
    fn.op \in {"filter_detections", "offset_detections", "shift_detections"}
        => heap[ValueAddr] = heap0[ValueAddr]

C5_Witness ==
    /\ pc = "done"
    /\ fn.op = "offset_detections"
    /\ outcome.kind = "returned"
    /\ LenDet(D0) = 2
    /\ Returned.xyxy # D0.xyxy

\* C6: on a value that is not a detection collection every entry point
\* raises InvalidInputTypeError without evaluating the statement, without
\* allocating anything and without returning.
C6_NonCollectionRejectedUpFront ==
    (fn.op # "none" /\ ~IsDetections(D0)) =>
        /\ seen = <<>>
        /\ heap = heap0
        /\ local_parameters = NoRef
        /\ detections_copy = NoRef
        /\ pc \in {"filter_check", "offset_check", "shift_check",
                   "extract_check", "done"}
        /\ pc = "done" => outcome = [kind |-> "raised",
                                     error |-> "InvalidInputTypeError"]

C6_Witness ==
    /\ pc = "done"
    /\ fn.op = "filter_detections"
    /\ ~IsDetections(D0)
    /\ outcome.kind = "raised"

\* The names of the global context that the operands of a statement read.
RECURSIVE OperandNames(_)
OperandNames(statement) ==
    IF statement.type = "BinaryStatement"
    THEN {statement.left_operand.operand_name,
          statement.right_operand.operand_name} \ {DEFAULT_OPERAND_NAME}
    ELSE UNION {OperandNames(statement.statements[k]) :
                   k \in 1..Len(statement.statements)}

MissingName == \E n \in OperandNames(fn.statement) : n \notin DOMAIN G0
IsEvaluationError(e) == e \in {"EvaluationEngineError", "InvalidInputTypeError"}

\* C7 as stated: whenever the global context lacks a name an operand of the
\* statement refers to, the call ends with an evaluation error raised before
\* any mask entry was recorded, for a collection of any length.
C7_MissingNameAlwaysRaisesFirst ==
    (pc = "done" /\ FilterCalled /\ MissingName) =>
        /\ outcome.kind = "raised"
        /\ IsEvaluationError(outcome.error)
        /\ result = <<>>

\* C7 amended: with a name missing, a non-empty collection evaluated by an
\* evaluator that resolves every operand raises an evaluation error on the
\* first detection, with no mask entry recorded and nothing returned; an
\* empty collection is returned as an empty collection without evaluating.
C7_MissingNameRaisesOnFirstDetection ==
    (pc = "done" /\ FilterCalled /\ MissingName) =>
        /\ LenDet(D0) = 0 =>
              /\ outcome.kind = "returned"
              /\ seen = <<>>
              /\ LenDet(Returned) = 0
        /\ (LenDet(D0) > 0 /\ ~fn.shortCircuit) =>
              /\ outcome.kind = "raised"
              /\ IsEvaluationError(outcome.error)
              /\ result = <<>>
              /\ Len(seen) = 1
              /\ \A a \in Addrs \ {ValueAddr, GlobalsAddr, local_parameters} :
                    heap[a] = Free

C7_Witness ==
    /\ FilterRaised
    /\ MissingName
    /\ LenDet(D0) = 2
    /\ ~fn.shortCircuit
    /\ outcome.error = "EvaluationEngineError"
    /\ fn.statement = FILTERING_WORKFLOW
    /\ "classes" \notin DOMAIN G0

\* C8: an error raised while evaluating a detection ends the call at once
\* with that error: no later detection is evaluated, nothing is returned;
\* and a call that returns has evaluated every detection and recorded a
\* full mask.
C8_ErrorsPropagateNoPartialResult ==
    FilterCalled =>
        /\ \A j \in 1..Len(seen) :
              LET r == EvalStatement(fn.statement, seen[j], fn.shortCircuit) IN
              IsErr(r) =>
                  /\ j = Len(seen)
                  /\ pc = "done"
                  /\ outcome = [kind |-> "raised", error |-> r.error]
                  /\ Len(result) = j - 1
                  /\ \A a \in Addrs \ {ValueAddr, GlobalsAddr, local_parameters} :
                        heap[a] = Free
        /\ pc = "done" =>
              \/ /\ outcome.kind = "returned"
                 /\ Len(seen) = LenDet(D0)
                 /\ Len(result) = LenDet(D0)
                 /\ IsDetections(Returned)
              \/ /\ outcome.kind = "raised"
                 /\ Len(seen) > 0
                 /\ IsErr(EvalStatement(fn.statement, seen[Len(seen)],
                                        fn.shortCircuit))

C8_Witness ==
    /\ FilterRaised
    /\ LenDet(D0) = 2
    /\ Len(seen) = 1
    /\ result = <<>>

OffsetExact(b) ==
    <<b[1] - fn.offset_x, b[2] - fn.offset_y,
      b[3] + fn.offset_x, b[4] + fn.offset_y>>

Width(b) == b[3] - b[1]
Height(b) == b[4] - b[2]

ShiftExact(b) ==
    <<b[1] + 2 * fn.shift_x, b[2] + 2 * fn.shift_y,
      b[3] + 2 * fn.shift_x, b[4] + 2 * fn.shift_y>>

FarShifts == {0, 1, 3, Pow2(SignificandBits("float32"))}

\* The argument of the first call: a collection whose coordinate array has
\* either dtype.
InitRoundTrip ==
    /\ pc = "idle"
    /\ fn = [op |-> "none"]
    /\ \E v \in {AsType(c, t) : c \in Collections, t \in Dtypes}
                  \cup NonCollections,
          g \in GlobalDicts :
          heap = [a \in Addrs |-> IF a = ValueAddr THEN v
                                  ELSE IF a = GlobalsAddr THEN g ELSE Free]
    /\ heap0 = heap
    /\ local_parameters = NoRef
    /\ result = <<>>
    /\ idx = 0
    /\ should_stay = FALSE
    /\ detections_copy = NoRef
    /\ outcome = [kind |-> "none"]
    /\ seen = <<>>

\* Where the first argument is kept while the second call runs.
OriginAddr == 4

CallShiftFar ==
    /\ pc = "idle"
    /\ \E sx \in FarShifts, sy \in FarShifts :
          fn' = [op |-> "shift_detections", shift_x |-> sx, shift_y |-> sy]
    /\ pc' = "shift_check"
    /\ UNCHANGED <<heap, local_parameters, result, idx, should_stay,
                   detections_copy, outcome, heap0, seen>>

\* shift_detections(shift_detections(D, dx, dy), -dx, -dy): the collection
\* the first call returned becomes the argument of the second call (the
\* objects are renumbered so that the argument is at ValueAddr again and D
\* at OriginAddr).
CallShiftBack ==
    /\ pc = "done"
    /\ fn.op = "shift_detections"
    /\ "back" \notin DOMAIN fn
    /\ outcome.kind = "returned"
    /\ LET h == [a \in Addrs |->
                    IF a = ValueAddr THEN heap[outcome.ref]
                    ELSE IF a = GlobalsAddr THEN heap[GlobalsAddr]
                    ELSE IF a = OriginAddr THEN heap[ValueAddr]
                    ELSE Free] IN
          /\ heap' = h
          /\ heap0' = h
    /\ fn' = [op |-> "shift_detections", shift_x |-> -fn.shift_x,
              shift_y |-> -fn.shift_y, back |-> TRUE]
    /\ detections_copy' = NoRef
    /\ outcome' = [kind |-> "none"]
    /\ pc' = "shift_check"
    /\ UNCHANGED <<local_parameters, result, idx, should_stay, seen>>

NextRoundTrip ==
    \/ CallShiftFar
    \/ ShiftCheck
    \/ ShiftCopy
    \/ ShiftAdd
    \/ CallShiftBack

SpecRoundTrip == InitRoundTrip /\ [][NextRoundTrip]_vars

RoundTripDone ==
    /\ pc = "done"
    /\ fn.op = "shift_detections"
    /\ "back" \in DOMAIN fn
    /\ outcome.kind = "returned"
Origin == heap[OriginAddr]
Intermediate == heap[ValueAddr]
\* The shift of the first call, per coordinate, in half pixels.
Forward(j) == IF j \in {1, 3} THEN -2 * fn.shift_x ELSE -2 * fn.shift_y

Mutations == {"box", "confidence", "class_name"}
Mutate(D, kind, i) ==
    CASE kind = "box" -> [D EXCEPT !.xyxy[i] = <<-2, -2, -2, -2>>]
      [] kind = "confidence" -> [D EXCEPT !.confidence[i] = 0]
      [] kind = "class_name" /\ "class_name" \in DOMAIN D.data ->
            [D EXCEPT !.data = [class_name |-> [D.data["class_name"] EXCEPT ![i] = "edited"]]]
      [] OTHER -> D

\* After offset_detections or shift_detections returned, the caller writes
\* into the collection it got back.
CallerMutatesResult ==
    /\ pc = "done"
    /\ fn.op \in {"offset_detections", "shift_detections"}
    /\ outcome.kind = "returned"
    /\ \E kind \in Mutations, i \in 1..LenDet(heap[outcome.ref]) :
          /\ Mutate(heap[outcome.ref], kind, i) # heap[outcome.ref]
          /\ heap' = [heap EXCEPT ![outcome.ref] = Mutate(@, kind, i)]
    /\ pc' = "mutated"
    /\ UNCHANGED <<fn, local_parameters, result, idx, should_stay,
                   detections_copy, outcome, heap0, seen>>

NextIndependence ==
    \/ CallOffset
    \/ OffsetCheck
    \/ OffsetCopy
    \/ OffsetAdd
    \/ CallShift
    \/ ShiftCheck
    \/ ShiftCopy
    \/ ShiftAdd
    \/ CallerMutatesResult

SpecIndependence == Init /\ [][NextIndependence]_vars

\* C12: offset_detections(D, 0, 0) returns the geometry of D in an object
\* of its own, and nothing the caller later writes into the collection
\* returned by offset_detections or shift_detections (boxes or nested
\* columns) shows in D.
C12_ResultIsIndependentCopy ==
    /\ (pc = "done" /\ fn.op = "offset_detections" /\ IsDetections(D0)
           /\ fn.offset_x = 0 /\ fn.offset_y = 0)
       => /\ outcome.kind = "returned"
          /\ outcome.ref # ValueAddr
          /\ Returned.xyxy = D0.xyxy
          /\ Returned = D0
    /\ (pc \in {"done", "mutated"} /\ IsDetections(D0))
       => /\ outcome.ref # ValueAddr
          /\ heap[ValueAddr] = D0

C12_Witness ==
    /\ pc = "mutated"
    /\ fn.op = "offset_detections"
    /\ fn.offset_x = 0
    /\ fn.offset_y = 0
    /\ LenDet(D0) = 2
    /\ Returned.xyxy # D0.xyxy
    /\ heap[ValueAddr] = D0

(***************************************************************************)
(* Concurrent calls of filter_detections                                   *)
(*                                                                         *)
(* Two calls run at once, as when the engine filters two images of a batch *)
(* with the same statement and the same global parameter mapping.  In this *)
(* specification every local of filter_detections (pc, local_parameters,   *)
(* result, idx, should_stay, outcome, seen) is a function of the call,     *)
(* and each statement of lines 54-67 is one step of one call.              *)
(***************************************************************************)
Threads == {1, 2}
SecondValueAddr == 5
ArgAddr(t) == IF t = 1 THEN ValueAddr ELSE SecondValueAddr

ConcurrentRows == {RowPerson, RowCar}
ConcurrentCollections ==
    {MkDetections(rows, TRUE) :
        rows \in UNION {[1..n -> ConcurrentRows] : n \in 1..MaxLen}}
ConcurrentGlobals ==
    {Dict([k \in S |-> AllParameters[k]]) :
        S \in {{"classes", "image"}, {"image"}, ParameterNames}}
ConcurrentStatements == {ClassInClasses, FILTERING_WORKFLOW}
ConcurrentEffects == {"none", "set_memo", "del_operand"}

InitConcurrent ==
    /\ pc = [t \in Threads |-> "filter_check"]
    /\ \E s \in ConcurrentStatements, e \in ConcurrentEffects :
          fn = [op |-> "filter_detections", statement |-> s, effect |-> e,
                shortCircuit |-> FALSE]
    /\ \E d1 \in ConcurrentCollections, d2 \in ConcurrentCollections,
          g \in ConcurrentGlobals :
          /\ d1 # d2
          /\ heap = [a \in Addrs |->
                        IF a = ValueAddr THEN d1
                        ELSE IF a = SecondValueAddr THEN d2
                        ELSE IF a = GlobalsAddr THEN g ELSE Free]
    /\ heap0 = heap
    /\ local_parameters = [t \in Threads |-> NoRef]
    /\ result = [t \in Threads |-> <<>>]
    /\ idx = [t \in Threads |-> 0]
    /\ should_stay = [t \in Threads |-> FALSE]
    /\ detections_copy = NoRef
    /\ outcome = [t \in Threads |-> [kind |-> "none"]]
    /\ seen = [t \in Threads |-> <<>>]

\* if not isinstance(detections, sv.Detections): raise InvalidInputTypeError
ThreadCheck(t) ==
    /\ pc[t] = "filter_check"
    /\ IF IsDetections(heap[ArgAddr(t)])
       THEN /\ pc' = [pc EXCEPT ![t] = "filter_copy"]
            /\ UNCHANGED outcome
       ELSE /\ pc' = [pc EXCEPT ![t] = "done"]
            /\ outcome' = [outcome EXCEPT ![t] =
                   [kind |-> "raised", error |-> "InvalidInputTypeError"]]
    /\ UNCHANGED <<fn, heap, local_parameters, result, idx, should_stay,
                   detections_copy, heap0, seen>>

\* local_parameters = copy(global_parameters); result = []
ThreadCopy(t) ==
    /\ pc[t] = "filter_copy"
    /\ LET c == copy(heap, GlobalsAddr) IN
          /\ heap' = c.heap
          /\ local_parameters' = [local_parameters EXCEPT ![t] = c.ref]
    /\ result' = [result EXCEPT ![t] = <<>>]
    /\ idx' = [idx EXCEPT ![t] = 0]
    /\ pc' = [pc EXCEPT ![t] = "filter_loop"]
    /\ UNCHANGED <<fn, should_stay, detections_copy, outcome, heap0, seen>>

\* for detection in detections: local_parameters[DEFAULT_OPERAND_NAME] = detection
ThreadBind(t) ==
    /\ pc[t] = "filter_loop"
    /\ idx[t] < LenDet(heap[ArgAddr(t)])
    /\ idx' = [idx EXCEPT ![t] = @ + 1]
    /\ heap' = [heap EXCEPT ![local_parameters[t]].items =
                   Put(@, DEFAULT_OPERAND_NAME,
                       DetRow(heap[ArgAddr(t)], idx[t] + 1))]
    /\ pc' = [pc EXCEPT ![t] = "filter_eval"]
    /\ UNCHANGED <<fn, local_parameters, result, should_stay, detections_copy,
                   outcome, heap0, seen>>

\* should_stay = filtering_fun(local_parameters)
ThreadEval(t) ==
    /\ pc[t] = "filter_eval"
    /\ seen' = [seen EXCEPT ![t] = Append(@, heap[local_parameters[t]].items)]
    /\ LET r == EvalStatement(fn.statement, heap[local_parameters[t]].items,
                              fn.shortCircuit) IN
          IF IsErr(r)
          THEN /\ pc' = [pc EXCEPT ![t] = "done"]
               /\ outcome' = [outcome EXCEPT ![t] =
                      [kind |-> "raised", error |-> r.error]]
               /\ UNCHANGED <<heap, should_stay>>
          ELSE /\ should_stay' = [should_stay EXCEPT ![t] = r.v]
               /\ heap' = [heap EXCEPT ![local_parameters[t]].items =
                              ApplyEffect(@, fn.effect)]
               /\ pc' = [pc EXCEPT ![t] = "filter_append"]
               /\ UNCHANGED outcome
    /\ UNCHANGED <<fn, local_parameters, result, idx, detections_copy, heap0>>

\* result.append(should_stay)
ThreadAppend(t) ==
    /\ pc[t] = "filter_append"
    /\ result' = [result EXCEPT ![t] = Append(@, should_stay[t])]
    /\ pc' = [pc EXCEPT ![t] = "filter_loop"]
    /\ UNCHANGED <<fn, heap, local_parameters, idx, should_stay,
                   detections_copy, outcome, heap0, seen>>

\* return detections[result]
ThreadReturn(t) ==
    /\ pc[t] = "filter_loop"
    /\ idx[t] >= LenDet(heap[ArgAddr(t)])
    /\ LET sub == GetItem(heap[ArgAddr(t)], result[t]) IN
          IF IsErr(sub)
          THEN /\ outcome' = [outcome EXCEPT ![t] =
                      [kind |-> "raised", error |-> sub.error]]
               /\ UNCHANGED heap
          ELSE LET a == Alloc(heap) IN
                  /\ heap' = [heap EXCEPT ![a] = sub]
                  /\ outcome' = [outcome EXCEPT ![t] =
                         [kind |-> "returned", ref |-> a]]
    /\ pc' = [pc EXCEPT ![t] = "done"]
    /\ UNCHANGED <<fn, local_parameters, result, idx, should_stay,
                   detections_copy, heap0, seen>>

NextConcurrent ==
    \/ \E t \in Threads : ThreadCheck(t)
    \/ \E t \in Threads : ThreadCopy(t)
    \/ \E t \in Threads : ThreadBind(t)
    \/ \E t \in Threads : ThreadEval(t)
    \/ \E t \in Threads : ThreadAppend(t)
    \/ \E t \in Threads : ThreadReturn(t)

SpecConcurrent == InitConcurrent /\ [][NextConcurrent]_vars

\* What a call on collection D returns when it runs alone: the error of the
\* first detection whose evaluation fails, else D subset by the verdicts.
AloneVerdict(D, i) ==
    EvalStatement(fn.statement, Put(G0, DEFAULT_OPERAND_NAME, DetRow(D, i)),
                  fn.shortCircuit)
AloneResult(D) ==
    IF \E i \in 1..LenDet(D) : IsErr(AloneVerdict(D, i))
    THEN LET i == CHOOSE k \in 1..LenDet(D) :
                     /\ IsErr(AloneVerdict(D, k))
                     /\ \A l \in 1..(k - 1) : ~IsErr(AloneVerdict(D, l))
         IN  AloneVerdict(D, i)
    ELSE GetItem(D, [i \in 1..LenDet(D) |-> AloneVerdict(D, i).v])

\* C13: under every interleaving of two calls that share the global
\* mapping, a call only ever evaluates with its own detections bound, in
\* its own order, and ends as it would have ended alone.
C13_ConcurrentCallsDoNotInterfere ==
    \A t \in Threads :
        /\ \A j \in 1..Len(seen[t]) :
              /\ DEFAULT_OPERAND_NAME \in DOMAIN seen[t][j]
              /\ seen[t][j][DEFAULT_OPERAND_NAME] = DetRow(heap0[ArgAddr(t)], j)
        /\ heap[GlobalsAddr] = heap0[GlobalsAddr]
        /\ pc[t] = "done" =>
              LET alone == AloneResult(heap0[ArgAddr(t)]) IN
              IF IsErr(alone)
              THEN outcome[t] = [kind |-> "raised", error |-> alone.error]
              ELSE /\ outcome[t].kind = "returned"
                   /\ heap[outcome[t].ref] = alone

\* Both calls ran to their return on two-element collections, with a
\* callable that writes into its context, and returned different results.
C13_Witness ==
    /\ \A t \in Threads : pc[t] = "done" /\ outcome[t].kind = "returned"
    /\ LenDet(heap0[ValueAddr]) = 2
    /\ LenDet(heap0[SecondValueAddr]) = 2
    /\ heap[outcome[1].ref] # heap[outcome[2].ref]
    /\ LenDet(heap[outcome[1].ref]) = 1
    /\ fn.effect = "set_memo"

(***************************************************************************)
(* Further properties of the single call (specification Spec)              *)
(***************************************************************************)
ExtractDone ==
    pc = "done" /\ fn.op = "extract_detections_property" /\ IsDetections(D0)

\* C14: on a detection collection extract_detections_property either
\* returns one value per detection, aligned with the collection, or fails
\* with InvalidInputTypeError / an evaluation error; it never fails with an
\* error outside that family.
C14_ExtractionTotalOrTypedError ==
    ExtractDone =>
        \/ /\ outcome.kind = "returned"
           /\ Returned.tag = "list"
           /\ Len(Returned.v) = LenDet(D0)
           /\ \A i \in 1..LenDet(D0) :
                 Returned.v[i] = PropertyOfRow(fn.property_name, DetRow(D0, i))
        \/ /\ outcome.kind = "raised"
           /\ IsEvaluationError(outcome.error)

\* C15: the statement is evaluated once per detection, in the collection's
\* order, and the j-th evaluation sees the j-th detection under the
\* reserved name, whatever the global mapping held under that name.
C15_EvaluatedOncePerDetectionInOrder ==
    FilterCalled =>
        /\ Len(seen) <= LenDet(D0)
        /\ Len(seen) <= idx
        /\ idx <= Len(seen) + 1
        /\ \A j \in 1..Len(seen) :
              /\ DEFAULT_OPERAND_NAME \in DOMAIN seen[j]
              /\ seen[j][DEFAULT_OPERAND_NAME] = DetRow(D0, j)
        /\ FilterReturned => Len(seen) = LenDet(D0)

C15_Witness ==
    /\ FilterReturned
    /\ LenDet(D0) = 2
    /\ Len(seen) = 2
    /\ DetRow(D0, 1) # DetRow(D0, 2)
    /\ DEFAULT_OPERAND_NAME \in DOMAIN G0
    /\ G0[DEFAULT_OPERAND_NAME] # DetRow(D0, 1)
    /\ fn.effect = "rebind_operand"

\* C16: every box returned by offset_detections or shift_detections has
\* x_min <= x_max and y_min <= y_max (the boxes of the argument do).
C16_ReturnedBoxesWellFormed ==
    (pc = "done" /\ fn.op \in {"offset_detections", "shift_detections"}
        /\ IsDetections(D0) /\ outcome.kind = "returned") =>
        \A i \in 1..LenDet(Returned) :
            /\ Returned.xyxy[i][1] <= Returned.xyxy[i][3]
            /\ Returned.xyxy[i][2] <= Returned.xyxy[i][4]

(***************************************************************************)
(* Segment Anything 2: conversion of the model's response                  *)
(*                                                                         *)
(* heap[ValueAddr] is boxes_for_image, fn holds the arguments of the       *)
(* conversion, idx is prediction_id and result is the list predictions.    *)
(***************************************************************************)
MaxPredictions == 2
MaxPolygons == 2

\* A polygon is a sequence of points <<x, y>>, in pixels.
PolygonPool == {<< >>,
                << <<0, 0>>, <<4, 0>>, <<0, 6>> >>,
                << <<2, 2>>, <<8, 4>> >>}
MaskPool == UNION {[1..n -> PolygonPool] : n \in 0..MaxPolygons}
\* sam2_segmentation_response.predictions: one entry per model prediction.
Sam2Responses ==
    UNION {[1..n -> [mask : MaskPool]] : n \in 0..MaxPredictions}

\* boxes_for_image: None, or the detections used as box prompts.
PromptBoxes ==
    {[tag |-> "NoneType"]} \cup
    {MkDetections(rows, TRUE) :
        rows \in UNION {[1..n -> ConcurrentRows] : n \in 0..MaxLen}}

\* range(n) as a list
Range(n) == [i \in 1..n |-> i - 1]

\* list[i] of a Python list, i >= 0
ListGet(list, i) ==
    IF i + 1 \in 1..Len(list) THEN list[i + 1] ELSE Err("IndexError")

\* Slip: the reduction is given a start value (np.min(xs, initial=0)).
NpReduceInitial(kind, xs) ==
    LET S == {xs[i] : i \in 1..Len(xs)} \cup {0}
    IN  IF kind = "min" THEN Num(CHOOSE m \in S : \A v \in S : m <= v, 1)
        ELSE Num(CHOOSE m \in S : \A v \in S : m >= v, 1)

\* np.min(xs), np.max(xs): a reduction without identity, ValueError on an
\* empty sequence.
NpReduce(kind, xs) ==
    LET S == {xs[i] : i \in 1..Len(xs)}
    IN  IF xs = << >> THEN Err("ValueError")
        ELSE IF kind = "min" THEN Num(CHOOSE m \in S : \A v \in S : m <= v, 1)
        ELSE Num(CHOOSE m \in S : \A v \in S : m >= v, 1)

\* The body of "for polygon in mask" (lines 242-270).
ConvertPolygon(polygon, prediction_id, prompt_class_ids, prompt_class_names) ==
    LET x_coords == [i \in 1..Len(polygon) |-> polygon[i][1]]
        y_coords == [i \in 1..Len(polygon) |-> polygon[i][2]]
        min_x == NpReduce("min", x_coords)
        min_y == NpReduce("min", y_coords)
        max_x == NpReduce("max", x_coords)
        max_y == NpReduce("max", y_coords)
        class == ListGet(prompt_class_names, prediction_id)
        class_id == ListGet(prompt_class_ids, prediction_id)
    IN  IF IsErr(min_x) THEN min_x
        ELSE IF IsErr(min_y) THEN min_y
        ELSE IF IsErr(max_x) THEN max_x
        ELSE IF IsErr(max_y) THEN max_y
        ELSE IF prediction_id >= Len(prompt_class_names) THEN class
        ELSE IF prediction_id >= Len(prompt_class_ids) THEN class_id
        ELSE [tag |-> "InstanceSegmentationPrediction",
              x |-> Num(min_x.n + max_x.n, 2),
              y |-> Num(min_y.n + max_y.n, 2),
              width |-> Num(max_x.n - min_x.n, 1),
              height |-> Num(max_y.n - min_y.n, 1),
              points |-> [i \in 1..Len(polygon) |->
                             [x |-> polygon[i][1], y |-> polygon[i][2]]],
              confidence |-> Num(1, 2),
              class |-> class,
              class_id |-> class_id]

\* for polygon in mask: ... predictions.append(...) -- the predictions
\* appended for one mask, up to the first polygon that fails, and the error
\* of that polygon ("none" when every polygon is converted).
ConvertMask(mask, prediction_id, prompt_class_ids, prompt_class_names) ==
    LET outs == [j \in 1..Len(mask) |->
                    ConvertPolygon(mask[j], prediction_id,
                                   prompt_class_ids, prompt_class_names)]
        bad == {j \in 1..Len(mask) : IsErr(outs[j])}
        stop == IF bad = {} THEN Len(mask) + 1
                ELSE CHOOSE j \in bad : \A k \in bad : j <= k
    IN  [appended |-> SubSeq(outs, 1, stop - 1),
         error |-> IF bad = {} THEN "none" ELSE outs[stop].error]

InitSam ==
    /\ pc = "idle"
    /\ fn = [op |-> "none"]
    /\ \E b \in PromptBoxes :
          heap = [a \in Addrs |->
                     IF a = ValueAddr THEN b
                     ELSE IF a = GlobalsAddr THEN Dict(<< >>) ELSE Free]
    /\ heap0 = heap
    /\ local_parameters = NoRef
    /\ result = << >>
    /\ idx = 0
    /\ should_stay = FALSE
    /\ detections_copy = NoRef
    /\ outcome = [kind |-> "none"]
    /\ seen = << >>

\* run_locally, one image: the prompt classes are read off the boxes and
\* the model answers with its predictions.
SamRunLocally ==
    /\ pc = "idle"
    /\ \E response \in Sam2Responses :
          LET boxes_for_image == heap[ValueAddr]
              given == IsDetections(boxes_for_image)
          IN  fn' = [op |-> "sam2_convert",
                     sam2_segmentation_predictions |-> response,
                     prompt_class_ids |->
                         IF given THEN boxes_for_image.class_id ELSE << >>,
                     prompt_class_names |->
                         IF given THEN boxes_for_image.data.class_name
                         ELSE << >>]
    /\ pc' = "sam_convert"
    /\ UNCHANGED <<heap, local_parameters, result, idx, should_stay,
                   detections_copy, outcome, heap0, seen>>

\* predictions = []; prediction_id = 0; if len(prompt_class_ids) == 0: ...
SamConvertStart ==
    /\ pc = "sam_convert"
    /\ result' = << >>
    /\ idx' = 0
    /\ fn' = IF Len(fn.prompt_class_ids) = 0
             THEN LET r == Range(Len(fn.sam2_segmentation_predictions))
                  IN  [fn EXCEPT !.prompt_class_ids = r,
                                 !.prompt_class_names =
                                     [i \in 1..Len(r) |-> ToString(r[i])]]
             ELSE fn
    /\ pc' = "sam_loop"
    /\ UNCHANGED <<heap, local_parameters, should_stay, detections_copy,
                   outcome, heap0, seen>>

\* for pred in sam2_segmentation_predictions: ...; prediction_id += 1
SamPrediction ==
    /\ pc = "sam_loop"
    /\ idx < Len(fn.sam2_segmentation_predictions)
    /\ LET pred == fn.sam2_segmentation_predictions[idx + 1]
           r == ConvertMask(pred.mask, idx, fn.prompt_class_ids,
                            fn.prompt_class_names)
       IN  /\ result' = result \o r.appended
           /\ IF r.error # "none"
              THEN /\ Raise(r.error)
                   /\ UNCHANGED idx
              ELSE /\ idx' = idx + 1
                   /\ UNCHANGED <<pc, outcome>>
    /\ UNCHANGED <<fn, heap, local_parameters, should_stay, detections_copy,
                   heap0, seen>>

\* return InstanceSegmentationInferenceResponse(predictions=predictions, ...)
SamReturn ==
    /\ pc = "sam_loop"
    /\ idx = Len(fn.sam2_segmentation_predictions)
    /\ LET a == Alloc(heap)
       IN  /\ heap' = [heap EXCEPT ![a] =
                          [tag |-> "InstanceSegmentationInferenceResponse",
                           predictions |-> result]]
           /\ Return(a)
    /\ UNCHANGED <<fn, local_parameters, result, idx, should_stay,
                   detections_copy, heap0, seen>>

NextSam ==
    \/ SamRunLocally
    \/ SamConvertStart
    \/ SamPrediction
    \/ SamReturn

SpecSam == InitSam /\ [][NextSam]_vars

(***************************************************************************)
(* Properties of the conversion (specification SpecSam)                    *)
(***************************************************************************)
SamDone == pc = "done" /\ fn.op = "sam2_convert"
Response == fn.sam2_segmentation_predictions
NPrompts == IF IsDetections(D0) THEN LenDet(D0) ELSE 0

HasEmptyPolygon ==
    \E k \in 1..Len(Response) :
        \E j \in 1..Len(Response[k].mask) : Response[k].mask[j] = << >>

RECURSIVE PolygonsBefore(_)
PolygonsBefore(k) ==
    IF k <= 1 THEN 0 ELSE PolygonsBefore(k - 1) + Len(Response[k - 1].mask)

\* Class of the k-th model prediction, k counted from 1.
ExpectedClassId(k) == IF NPrompts = 0 THEN k - 1 ELSE D0.class_id[k]
ExpectedClass(k) ==
    IF NPrompts = 0 THEN ToString(k - 1) ELSE D0.data.class_name[k]

OnePredictionPerPolygon ==
    LET out == Returned.predictions
    IN  /\ Len(out) = PolygonsBefore(Len(Response) + 1)
        /\ \A k \in 1..Len(Response) :
              \A j \in 1..Len(Response[k].mask) :
                 LET o == out[PolygonsBefore(k) + j]
                     polygon == Response[k].mask[j]
                 IN  /\ Len(o.points) = Len(polygon)
                     /\ \A i \in 1..Len(polygon) :
                           /\ o.points[i].x = polygon[i][1]
                           /\ o.points[i].y = polygon[i][2]
                     /\ k <= Len(fn.prompt_class_ids)
                     /\ o.class_id = ExpectedClassId(k)
                     /\ o.class = ExpectedClass(k)

\* C17: when some polygon of the response has no points the conversion
\* ends with an error and no response object is built.
C17_EmptyPolygonFailsConversion ==
    (SamDone /\ HasEmptyPolygon) =>
        /\ outcome.kind = "raised"
        /\ heap = heap0

C17_Witness ==
    /\ SamDone
    /\ HasEmptyPolygon
    /\ outcome.kind = "raised"
    /\ outcome.error = "ValueError"
    /\ Response[idx + 1].mask[1] # << >>
    /\ Len(result) > 0

\* C18: the conversion never fails on the class index, whatever the number
\* of model predictions and polygons, and what it returns has one
\* prediction per polygon, in prediction-then-polygon order, with the class
\* of the prompt box of the polygon's model prediction (or the prediction's
\* position when no prompt boxes were given).
C18_ClassIndexNeverPastPrompts ==
    SamDone =>
        /\ outcome.kind = "raised" => outcome.error # "IndexError"
        /\ outcome.kind = "returned" => OnePredictionPerPolygon
====
